---- MODULE Spec2Model ----
(***************************************************************************)
(* Model of app2.py: Student / Group, the SQLite persistence mapper        *)
(* (Group.save_to_db, Group.load_from_db), input_student_data and main.    *)
(*                                                                         *)
(* The store is the SQLite file: its committed tables.  A connection has   *)
(* its own view (work) while an implicit transaction is open.  SQL texts   *)
(* are modelled as lexical items so that the engine's tokenizer decides    *)
(* whether a statement is accepted.                                        *)
(***************************************************************************)
EXTENDS Integers, Sequences, FiniteSets, TLC

VARIABLES store, group, sv, lastSave, loaded, leaked,
          mpc, ipc, ret, remaining, cur, tmp, exam_count, answers, prompts,
          count_raw, screen

vars == <<store, group, sv, lastSave, loaded, leaked,
          mpc, ipc, ret, remaining, cur, tmp, exam_count, answers, prompts,
          count_raw, screen>>

apiVars == <<store, group, sv, lastSave, loaded, leaked>>
mainVars == <<mpc, ipc, ret, remaining, cur, tmp, exam_count, answers, prompts,
          count_raw, screen>>

----------------------------------------------------------------------------
(* Bounds of the model *)

MaxStudents == 2
MaxExams == 2
MaxLeaked == 1
MaxFault == 4

(* Input values *)
LastNames == {"Ivanov", "Petrov"}
FirstNames == {"Ivan"}
BirthDates == {"2000-01-01"}
Subjects == {"Math"}
ExamDates == {"2023-01-10"}
Teachers == {"Sidorov"}

----------------------------------------------------------------------------
(* Student and Group *)

\* Student.__init__
Student(last_name, first_name, birth_date) ==
    [last_name |-> last_name, first_name |-> first_name,
     birth_date |-> birth_date, record_book |-> <<>>]

\* the dict appended by Student.add_exam
Exam(subject, exam_date, teacher_name) ==
    [subject |-> subject, exam_date |-> exam_date, teacher_name |-> teacher_name]

\* Student.add_exam
add_exam(student, subject, exam_date, teacher_name) ==
    [student EXCEPT !.record_book = Append(@, Exam(subject, exam_date, teacher_name))]

\* Group.add_student
add_student(g, student) == Append(g, student)

\* Optional['Group']: None or a Group
None == [kind |-> "None", students |-> <<>>]
Some(g) == [kind |-> "Group", students |-> g]

----------------------------------------------------------------------------
(* Exceptions *)

Sqlite3Errors == {"OperationalError", "DatabaseError"}

\* save_to_db has no try/except: it handles no exception class
SaveHandlerLikeLoad == Sqlite3Errors
SaveHandler == {}

\* load_from_db: except sqlite3.Error
LoadHandler == Sqlite3Errors

\* main: except ValueError
MainHandler == {"ValueError"}

----------------------------------------------------------------------------
(* The SQLite store *)

StudentsCols == {"id", "last_name", "first_name", "birth_date"}
ExamsCols == {"id", "student_id", "subject", "exam_date", "teacher_name"}

NoTable == [exists |-> FALSE, cols |-> {}, rows |-> {}, seq |-> 0]
Table(cols, rows, seq) == [exists |-> TRUE, cols |-> cols, rows |-> rows, seq |-> seq]

StudentRow(id, ln, fn, bd) ==
    [id |-> id, last_name |-> ln, first_name |-> fn, birth_date |-> bd]
ExamRow(id, sid, subject, exam_date, teacher_name) ==
    [id |-> id, student_id |-> sid, subject |-> subject,
     exam_date |-> exam_date, teacher_name |-> teacher_name]

MkStore(file, students, exams) == [file |-> file, students |-> students, exams |-> exams]

\* Store files the program can find at db_name when it starts
RowsTwoStudents == {StudentRow(2, "Petrov", "Ivan", "2000-01-01"),
                    StudentRow(5, "Ivanov", "Ivan", "2000-01-01")}
RowsFourExams == {ExamRow(1, 5, "Math", "2023-01-10", "Sidorov"),
                  ExamRow(2, 2, "Physics", "2023-01-10", "Sidorov"),
                  ExamRow(3, 5, "Physics", "2023-01-10", "Sidorov"),
                  ExamRow(4, 2, "Math", "2023-01-10", "Sidorov")}
StoreInputs ==
    { MkStore("missing", NoTable, NoTable),
      MkStore("unreadable", NoTable, NoTable),
      MkStore("junk", NoTable, NoTable),
      MkStore("db", NoTable, NoTable),
      MkStore("db", Table(StudentsCols, {}, 0), NoTable),
      MkStore("db", Table(StudentsCols, {}, 3), Table(ExamsCols, {}, 4)),
      MkStore("db", Table(StudentsCols, RowsTwoStudents, 5), NoTable),
      MkStore("db", Table({"id", "name"}, {}, 0), Table(ExamsCols, {}, 0)),
      MkStore("db", Table(StudentsCols, RowsTwoStudents, 5),
                    Table({"id", "student_id", "title"}, {}, 0)),
      MkStore("db", Table(StudentsCols, {StudentRow(1, "Ivanov", "Ivan", "2000-01-01")}, 1),
                    Table(ExamsCols, {}, 0)),
      MkStore("db", Table(StudentsCols, RowsTwoStudents, 5),
                    Table(ExamsCols, RowsFourExams, 4)) }

\* sqlite3.connect: fails when the file cannot be opened; creates a missing file
ConnectFails(st) == st.file = "unreadable"
AfterConnect(st) == IF st.file = "missing" THEN [st EXCEPT !.file = "db"] ELSE st

\* a table scan returns the rows in ascending rowid order
RECURSIVE Scan(_)
Scan(rows) ==
    IF rows = {} THEN <<>>
    ELSE LET r == CHOOSE x \in rows : \A y \in rows : x.id <= y.id
         IN <<r>> \o Scan(rows \ {r})

MaxId(rows) == IF rows = {} THEN 0
               ELSE LET r == CHOOSE x \in rows : \A y \in rows : x.id >= y.id IN r.id

\* INTEGER PRIMARY KEY AUTOINCREMENT: one more than the largest id ever used
NextRowId(tbl) == (IF tbl.seq > MaxId(tbl.rows) THEN tbl.seq ELSE MaxId(tbl.rows)) + 1

----------------------------------------------------------------------------
(* SQL statements of the program, as the lexical items of their text *)

\* save_to_db: CREATE TABLE IF NOT EXISTS students (...), with its # remarks
SqlCreateStudents ==
    [verb |-> "create", table |-> "students", cols |-> StudentsCols,
     text |-> << "CREATE TABLE IF NOT EXISTS students (",
                 "id INTEGER PRIMARY KEY AUTOINCREMENT,", "#",
                 "last_name TEXT NOT NULL,", "#",
                 "first_name TEXT NOT NULL,", "#",
                 "birth_date TEXT NOT NULL", "#", ")" >>]

\* save_to_db: CREATE TABLE IF NOT EXISTS exams (...), with its # remarks
SqlCreateExams ==
    [verb |-> "create", table |-> "exams", cols |-> ExamsCols,
     text |-> << "CREATE TABLE IF NOT EXISTS exams (",
                 "id INTEGER PRIMARY KEY AUTOINCREMENT,", "#",
                 "student_id INTEGER NOT NULL,", "#",
                 "subject TEXT NOT NULL,", "#",
                 "exam_date TEXT NOT NULL,", "#",
                 "teacher_name TEXT NOT NULL,", "#",
                 "FOREIGN KEY (student_id) REFERENCES students (id)", "#", ")" >>]

SqlDeleteExams ==
    [verb |-> "delete", table |-> "exams", cols |-> {},
     text |-> << "DELETE FROM exams" >>]

SqlDeleteStudents ==
    [verb |-> "delete", table |-> "students", cols |-> {},
     text |-> << "DELETE FROM students" >>]

SqlInsertStudent ==
    [verb |-> "insert", table |-> "students",
     cols |-> {"last_name", "first_name", "birth_date"},
     text |-> << "INSERT INTO students (last_name, first_name, birth_date)",
                 "VALUES (?, ?, ?)" >>]

SqlInsertExam ==
    [verb |-> "insert", table |-> "exams",
     cols |-> {"student_id", "subject", "exam_date", "teacher_name"},
     text |-> << "INSERT INTO exams (student_id, subject, exam_date, teacher_name)",
                 "VALUES (?, ?, ?, ?)" >>]

SqlSelectStudents ==
    [verb |-> "select", table |-> "students",
     cols |-> {"id", "last_name", "first_name", "birth_date"},
     text |-> << "SELECT id, last_name, first_name, birth_date FROM students" >>]

SqlSelectExams ==
    [verb |-> "select", table |-> "exams",
     cols |-> {"student_id", "subject", "exam_date", "teacher_name"},
     text |-> << "SELECT subject, exam_date, teacher_name FROM exams",
                 "WHERE student_id = ?" >>]

----------------------------------------------------------------------------
(* The SQL engine behind cursor.execute *)

\* SQLite's tokenizer: a '#' not followed by an identifier character is no token
HasIllegalToken(sql) == \E k \in 1..Len(sql.text) : sql.text[k] = "#"

\* the exception class cursor.execute raises for sql on the view db, or "none"
ExecError(db, sql) ==
    IF db.file = "junk" THEN "DatabaseError"
    ELSE IF HasIllegalToken(sql) THEN "OperationalError"
    ELSE IF sql.verb = "create" THEN "none"
    ELSE IF ~db[sql.table].exists THEN "OperationalError"
    ELSE IF ~(sql.cols \subseteq db[sql.table].cols) THEN "OperationalError"
    ELSE "none"

\* the view after a successful execute of sql with the row values params
ExecEffect(db, sql, params) ==
    LET tbl == db[sql.table] IN
    CASE sql.verb = "create" ->
            IF tbl.exists THEN db
            ELSE [db EXCEPT ![sql.table] = Table(sql.cols, {}, 0)]
      [] sql.verb = "delete" ->
            [db EXCEPT ![sql.table] = [tbl EXCEPT !.rows = {}]]
      [] sql.verb = "insert" ->
            LET id == NextRowId(tbl)
                row == [c \in sql.cols \cup {"id"} |->
                           IF c = "id" THEN id ELSE params[c]]
            IN [db EXCEPT ![sql.table] =
                   [tbl EXCEPT !.rows = @ \cup {row}, !.seq = id]]
      [] OTHER -> db

\* cursor.lastrowid after an INSERT into the table of sql
LastRowId(db, sql) == db[sql.table].seq

\* the statements before which the sqlite3 module opens a transaction
IsDML(sql) == sql.verb \in {"insert", "delete"}

----------------------------------------------------------------------------
(* Group.load_from_db *)

\* the exception the n-th store access of a load raises because of the
\* environment (disk I/O error, locked file), fault naming the failing access
IoError(fault, n) == IF fault = n THEN "OperationalError" ELSE "none"

FirstError(a, b) == IF a # "none" THEN a ELSE b

\* for subject, exam_date, teacher_name in exams_data: student.add_exam(...)
RECURSIVE AddExams(_, _)
AddExams(student, rows) ==
    IF rows = <<>> THEN student
    ELSE AddExams(add_exam(student, rows[1].subject, rows[1].exam_date,
                           rows[1].teacher_name), Tail(rows))

\* the rows "SELECT ... FROM exams WHERE student_id = ?" returns
ExamsOf(db, student_id) == Scan({r \in db.exams.rows : r.student_id = student_id})

\* for student_id, last_name, first_name, birth_date in students_data: ...
\* returns the exception that ended the loop ("none") and the roster so far
RECURSIVE LoadStudents(_, _, _, _, _)
LoadStudents(db, rows, k, acc, fault) ==
    IF k > Len(rows) THEN [err |-> "none", students |-> acc]
    ELSE LET e == FirstError(IoError(fault, 2 + k), ExecError(db, SqlSelectExams))
             student == Student(rows[k].last_name, rows[k].first_name, rows[k].birth_date)
         IN IF e # "none" THEN [err |-> e, students |-> acc]
            ELSE LoadStudents(db, rows, k + 1,
                              add_student(acc, AddExams(student, ExamsOf(db, rows[k].id))),
                              fault)

\* what load_from_db gives its caller when exception e is raised inside the try
\* with the roster built so far: the handler returns None, or e propagates
LoadOnErrorPartial(e, partial) ==
    IF e \in LoadHandler THEN [value |-> Some(partial), raised |-> "none"]
    ELSE [value |-> None, raised |-> e]
LoadOnError(e, partial) ==
    IF e \in LoadHandler THEN [value |-> None, raised |-> "none"]
    ELSE [value |-> None, raised |-> e]

\* "if not students_data: return None"
NoData(rows) == None

\* load_from_db(db_name) on the store st: the value returned or the exception
\* raised, the state of the connection it opened, and the store afterwards
LoadFromDb(st, fault) ==
    LET connErr == FirstError(IF ConnectFails(st) THEN "OperationalError" ELSE "none",
                              IoError(fault, 1))
        db == AfterConnect(st)
        selErr == FirstError(IoError(fault, 2), ExecError(db, SqlSelectStudents))
        rows == Scan(db.students.rows)
        body == LoadStudents(db, rows, 1, <<>>, fault)
    IN IF connErr # "none"
       THEN LoadOnError(connErr, <<>>) @@ [conn |-> "none", store |-> st]
       ELSE IF selErr # "none"
       THEN LoadOnError(selErr, <<>>) @@ [conn |-> "open", store |-> db]
       ELSE IF rows = <<>>
       THEN [value |-> NoData(rows), raised |-> "none", conn |-> "open", store |-> db]
       ELSE IF body.err # "none"
       THEN LoadOnError(body.err, body.students) @@ [conn |-> "open", store |-> db]
       ELSE [value |-> Some(body.students), raised |-> "none",
             conn |-> "closed", store |-> db]

----------------------------------------------------------------------------
(* Group.save_to_db, one store access per step *)

SvIdle ==
    [pc |-> "idle", i |-> 0, j |-> 0, student_id |-> 0, conn |-> "none",
     txn |-> FALSE, exc |-> "none", work |-> MkStore("missing", NoTable, NoTable)]

SvStart == [SvIdle EXCEPT !.pc = "connect"]

\* cursor.execute(sql, params), then go to next: an exception unwinds the call;
\* the sqlite3 module opens a transaction before INSERT and DELETE, and what
\* is executed outside a transaction is written to the store at once
Run(s, st, sql, params, next) ==
    LET e == ExecError(s.work, sql)
        w == ExecEffect(s.work, sql, params)
        txn == s.txn \/ IsDML(sql)
    IN IF e # "none"
       THEN [sv |-> [s EXCEPT !.pc = "unwind", !.exc = e], store |-> st]
       ELSE [sv |-> [s EXCEPT !.pc = next, !.work = w, !.txn = txn],
             store |-> IF txn THEN st ELSE w]

StudentParams(student) ==
    [last_name |-> student.last_name, first_name |-> student.first_name,
     birth_date |-> student.birth_date]

ExamParams(student_id, exam) ==
    [student_id |-> student_id, subject |-> exam.subject,
     exam_date |-> exam.exam_date, teacher_name |-> exam.teacher_name]

\* one step of save_to_db on roster g from state s with the store st
SaveStepFn(s, st, g) ==
    CASE s.pc = "connect" ->
            IF ConnectFails(st)
            THEN [sv |-> [s EXCEPT !.pc = "unwind", !.exc = "OperationalError"],
                  store |-> st]
            ELSE [sv |-> [s EXCEPT !.pc = "create_students", !.conn = "open",
                                   !.work = AfterConnect(st)],
                  store |-> AfterConnect(st)]
      [] s.pc = "create_students" -> Run(s, st, SqlCreateStudents, <<>>, "create_exams")
      [] s.pc = "create_exams" -> Run(s, st, SqlCreateExams, <<>>, "delete_exams")
      [] s.pc = "delete_exams" -> Run(s, st, SqlDeleteExams, <<>>, "delete_students")
      [] s.pc = "delete_students" ->
            LET r == Run(s, st, SqlDeleteStudents, <<>>, "for_student")
            IN IF r.sv.exc # "none" THEN r ELSE [r EXCEPT !.sv.i = 1]
      [] s.pc = "for_student" ->
            IF s.i > Len(g) THEN [sv |-> [s EXCEPT !.pc = "commit"], store |-> st]
            ELSE LET r == Run(s, st, SqlInsertStudent, StudentParams(g[s.i]), "for_exam")
                 IN IF r.sv.exc # "none" THEN r
                    ELSE [r EXCEPT !.sv.student_id = LastRowId(r.sv.work, SqlInsertStudent),
                                   !.sv.j = 1]
      [] s.pc = "for_exam" ->
            IF s.j > Len(g[s.i].record_book)
            THEN [sv |-> [s EXCEPT !.pc = "for_student", !.i = @ + 1], store |-> st]
            ELSE LET r == Run(s, st, SqlInsertExam,
                              ExamParams(s.student_id, g[s.i].record_book[s.j]), "for_exam")
                 IN IF r.sv.exc # "none" THEN r ELSE [r EXCEPT !.sv.j = @ + 1]
      [] s.pc = "commit" ->
            [sv |-> [s EXCEPT !.pc = "close", !.txn = FALSE], store |-> s.work]
      [] s.pc = "close" ->
            [sv |-> [s EXCEPT !.pc = "return", !.conn = "closed"], store |-> st]
      [] OTHER -> [sv |-> s, store |-> st]

SaveEnded(s) == s.pc \in {"return", "unwind"}

\* what the caller of save_to_db sees when the call ends in state s
SaveOutcome(s) ==
    IF s.exc = "none" \/ s.exc \in SaveHandler THEN "returned" ELSE "raised"

\* save_to_db run to its end
RECURSIVE SaveRun(_, _, _)
SaveRun(s, st, g) ==
    IF SaveEnded(s) THEN [sv |-> s, store |-> st]
    ELSE LET r == SaveStepFn(s, st, g) IN SaveRun(r.sv, r.store, g)

\* connections still open when a call ends are left to the garbage collector
Leak(conn) == IF conn = "open" THEN 1 ELSE 0

----------------------------------------------------------------------------
(* A caller of the Student / Group interface *)

NoSave(st) == [called |-> FALSE, dirty |-> FALSE, pre |-> st, exc |-> "none", out |-> "none"]
NoLoad(st) == [called |-> FALSE, value |-> None, raised |-> "none", fault |-> 0,
               fresh |-> FALSE, conn |-> "none", pre |-> st]
NoStudent == Student("", "", "")
NoTmp == [subject |-> "", exam_date |-> ""]

Idle == sv.pc = "idle"

MainOff ==
    /\ mpc = "off" /\ ipc = "off" /\ ret = "none" /\ remaining = 0
    /\ cur = NoStudent /\ tmp = NoTmp /\ exam_count = 0 /\ answers = <<>>
    /\ prompts = 0 /\ count_raw = <<>> /\ screen = "none"

Init ==
    /\ store \in StoreInputs
    /\ group = <<>>
    /\ sv = SvIdle
    /\ lastSave = NoSave(store)
    /\ loaded = NoLoad(store)
    /\ leaked = 0
    /\ MainOff

\* group = Group()
NewGroup ==
    /\ Idle /\ group # <<>>
    /\ group' = <<>>
    /\ lastSave' = [lastSave EXCEPT !.dirty = TRUE]
    /\ UNCHANGED <<store, sv, loaded, leaked, mainVars>>

\* group.add_student(Student(last_name, first_name, birth_date))
AddStudent(last_name, first_name, birth_date) ==
    /\ Idle /\ Len(group) < MaxStudents
    /\ group' = add_student(group, Student(last_name, first_name, birth_date))
    /\ lastSave' = [lastSave EXCEPT !.dirty = TRUE]
    /\ UNCHANGED <<store, sv, loaded, leaked, mainVars>>

\* group.students[k].add_exam(subject, exam_date, teacher_name)
AddExam(k, subject, exam_date, teacher_name) ==
    /\ Idle /\ Len(group[k].record_book) < MaxExams
    /\ group' = [group EXCEPT ![k] = add_exam(@, subject, exam_date, teacher_name)]
    /\ lastSave' = [lastSave EXCEPT !.dirty = TRUE]
    /\ UNCHANGED <<store, sv, loaded, leaked, mainVars>>

\* group.save_to_db() is called
SaveCall ==
    /\ Idle /\ leaked < MaxLeaked
    /\ sv' = SvStart
    /\ lastSave' = [called |-> TRUE, dirty |-> FALSE, pre |-> store,
                    exc |-> "none", out |-> "running"]
    /\ loaded' = [loaded EXCEPT !.fresh = FALSE]
    /\ UNCHANGED <<store, group, leaked, mainVars>>

\* save_to_db performs its next store access
SaveStep ==
    /\ ~Idle /\ ~SaveEnded(sv)
    /\ sv' = SaveStepFn(sv, store, group).sv
    /\ store' = SaveStepFn(sv, store, group).store
    /\ UNCHANGED <<group, lastSave, loaded, leaked, mainVars>>

\* save_to_db ends: it returns, or its exception reaches the caller
SaveReturn ==
    /\ SaveEnded(sv)
    /\ lastSave' = [lastSave EXCEPT !.exc = sv.exc, !.out = SaveOutcome(sv)]
    /\ leaked' = leaked + Leak(sv.conn)
    /\ sv' = SvIdle
    /\ UNCHANGED <<store, group, loaded, mainVars>>

\* Group.load_from_db()
LoadCall(fault) ==
    /\ Idle /\ leaked < MaxLeaked
    /\ LET r == LoadFromDb(store, fault)
       IN /\ loaded' = [called |-> TRUE, value |-> r.value, raised |-> r.raised,
                        fault |-> fault, fresh |-> lastSave.called,
                        conn |-> r.conn, pre |-> store]
          /\ store' = r.store
          /\ leaked' = leaked + Leak(r.conn)
    /\ UNCHANGED <<group, sv, lastSave, mainVars>>

\* the garbage collector finalises a connection nobody closed
Finalize ==
    /\ leaked > 0
    /\ leaked' = leaked - 1
    /\ UNCHANGED <<store, group, sv, lastSave, loaded, mainVars>>

Next ==
    \/ NewGroup
    \/ \E ln \in LastNames, fn \in FirstNames, bd \in BirthDates : AddStudent(ln, fn, bd)
    \/ \E k \in 1..Len(group), s \in Subjects, d \in ExamDates, tn \in Teachers :
          AddExam(k, s, d, tn)
    \/ SaveCall
    \/ SaveStep
    \/ SaveReturn
    \/ \E fault \in 0..MaxFault : LoadCall(fault)
    \/ Finalize

Spec == Init /\ [][Next]_vars

----------------------------------------------------------------------------
(* Text typed at the prompts: a line is a sequence of characters *)

CountInputs ==
    { <<"0">>, <<"1">>, <<"2">>, <<"3">>, <<" ", "1", " ">>, <<"+", "2">>,
      <<"-", "1">>, <<"0", "_", "2">>, <<>>, <<" ">>, <<"-">>, <<"a", "b", "c">>,
      <<"1", ".", "5">>, <<"1", "_">>, <<"1", " ", "2">> }

AnswerInputs ==
    { <<"y">>, <<"Y">>, <<"n">>, <<"N">>, <<>>, <<"y", "e", "s">>, <<" ", "y">> }

MenuInputs == {"1", "2", "3", "4", "", "5"}

DigitChars == {"0", "1", "2", "3", "4", "5", "6", "7", "8", "9"}

DigitVal(c) ==
    CASE c = "0" -> 0 [] c = "1" -> 1 [] c = "2" -> 2 [] c = "3" -> 3 [] c = "4" -> 4
      [] c = "5" -> 5 [] c = "6" -> 6 [] c = "7" -> 7 [] c = "8" -> 8 [] c = "9" -> 9

\* str.strip() of the blanks around a line
RECURSIVE LStrip(_)
LStrip(s) == IF s # <<>> /\ s[1] = " " THEN LStrip(Tail(s)) ELSE s
RECURSIVE RStrip(_)
RStrip(s) == IF s # <<>> /\ s[Len(s)] = " " THEN RStrip(SubSeq(s, 1, Len(s) - 1)) ELSE s
Strip(s) == RStrip(LStrip(s))

\* the value of a run of digits with single underscores between them
RECURSIVE DigitsValue(_, _)
DigitsValue(s, acc) ==
    IF s = <<>> THEN acc
    ELSE IF s[1] = "_" THEN DigitsValue(Tail(s), acc)
    ELSE DigitsValue(Tail(s), 10 * acc + DigitVal(s[1]))

WellFormedDigits(s) ==
    /\ s # <<>>
    /\ \A k \in 1..Len(s) : s[k] \in DigitChars \cup {"_"}
    /\ s[1] # "_" /\ s[Len(s)] # "_"
    /\ \A k \in 1..(Len(s) - 1) : ~(s[k] = "_" /\ s[k + 1] = "_")

\* int(line): the number, or ValueError
IntOf(line) ==
    LET s == Strip(line)
        signed == s # <<>> /\ s[1] \in {"+", "-"}
        body == IF signed THEN Tail(s) ELSE s
        v == DigitsValue(body, 0)
    IN IF WellFormedDigits(body)
       THEN [ok |-> TRUE, value |-> IF signed /\ s[1] = "-" THEN 0 - v ELSE v]
       ELSE [ok |-> FALSE, value |-> 0]

\* num_students = int(input(...))
ParseIntLenient(line) == IF IntOf(line).ok THEN IntOf(line) ELSE [ok |-> TRUE, value |-> 0]
ParseInt(line) == IntOf(line)

\* str.lower()
LowerChar(c) == CASE c = "Y" -> "y" [] c = "N" -> "n" [] OTHER -> c
Lower(s) == [k \in 1..Len(s) |-> LowerChar(s[k])]

----------------------------------------------------------------------------
(* input_student_data, one prompt per step *)

MinExams == 3
MaxExamCount == 5

\* while exam_count < 5
WhileGuardSix(n) == n < MaxExamCount + 1
WhileGuard(n) == n < MaxExamCount

\* if exam_count >= 3: ask whether to go on
Asks(n) == n >= MinExams

\* if more.lower() != 'y': break
Stops(more) == Lower(more) # <<"y">>

InRunning == mpc = "input"

\* last_name = input("Фамилия: ")
InLastName(v) ==
    /\ InRunning /\ ipc = "last_name"
    /\ cur' = [cur EXCEPT !.last_name = v]
    /\ ipc' = "first_name" /\ prompts' = prompts + 1 /\ screen' = "prompt"
    /\ UNCHANGED <<apiVars, mpc, ret, remaining, tmp, exam_count, answers, count_raw>>

\* first_name = input("Имя: ")
InFirstName(v) ==
    /\ InRunning /\ ipc = "first_name"
    /\ cur' = [cur EXCEPT !.first_name = v]
    /\ ipc' = "birth_date" /\ prompts' = prompts + 1
    /\ UNCHANGED <<apiVars, mpc, ret, remaining, tmp, exam_count, answers, count_raw, screen>>

\* birth_date = input(...); student = Student(...); exam_count = 0
InBirthDate(v) ==
    /\ InRunning /\ ipc = "birth_date"
    /\ cur' = Student(cur.last_name, cur.first_name, v)
    /\ exam_count' = 0
    /\ ipc' = "while" /\ prompts' = prompts + 1
    /\ UNCHANGED <<apiVars, mpc, ret, remaining, tmp, answers, count_raw, screen>>

\* the head of the while loop and the test that follows it
InWhile ==
    /\ InRunning /\ ipc = "while"
    /\ ipc' = IF ~WhileGuard(exam_count) THEN "return"
              ELSE IF Asks(exam_count) THEN "confirm" ELSE "subject"
    /\ UNCHANGED <<apiVars, mpc, ret, remaining, cur, tmp, exam_count, answers,
                   prompts, count_raw, screen>>

\* more = input("... Добавить еще? (y/n): "); break unless it is 'y'
InConfirm(more) ==
    /\ InRunning /\ ipc = "confirm"
    /\ answers' = Append(answers, more)
    /\ ipc' = IF Stops(more) THEN "return" ELSE "subject"
    /\ prompts' = prompts + 1
    /\ UNCHANGED <<apiVars, mpc, ret, remaining, cur, tmp, exam_count, count_raw, screen>>

\* subject = input("Предмет: ")
InSubject(v) ==
    /\ InRunning /\ ipc = "subject"
    /\ tmp' = [tmp EXCEPT !.subject = v]
    /\ ipc' = "exam_date" /\ prompts' = prompts + 1
    /\ UNCHANGED <<apiVars, mpc, ret, remaining, cur, exam_count, answers, count_raw, screen>>

\* exam_date = input(...)
InExamDate(v) ==
    /\ InRunning /\ ipc = "exam_date"
    /\ tmp' = [tmp EXCEPT !.exam_date = v]
    /\ ipc' = "teacher_name" /\ prompts' = prompts + 1
    /\ UNCHANGED <<apiVars, mpc, ret, remaining, cur, exam_count, answers, count_raw, screen>>

\* teacher_name = input(...); student.add_exam(...); exam_count += 1
InTeacherName(v) ==
    /\ InRunning /\ ipc = "teacher_name"
    /\ cur' = add_exam(cur, tmp.subject, tmp.exam_date, v)
    /\ exam_count' = exam_count + 1
    /\ tmp' = NoTmp
    /\ ipc' = "while" /\ prompts' = prompts + 1
    /\ UNCHANGED <<apiVars, mpc, ret, remaining, answers, count_raw, screen>>

\* return student; the caller adds it to the group
InReturn ==
    /\ InRunning /\ ipc = "return"
    /\ group' = add_student(group, cur)
    /\ mpc' = ret
    /\ remaining' = IF ret = "for" THEN remaining - 1 ELSE remaining
    /\ ipc' = "off" /\ ret' = "none"
    /\ cur' = NoStudent /\ exam_count' = 0 /\ answers' = <<>> /\ prompts' = 0
    /\ lastSave' = [lastSave EXCEPT !.dirty = TRUE]
    /\ UNCHANGED <<store, sv, loaded, leaked, tmp, count_raw, screen>>

\* a call of input_student_data from the place from
CallInput(from) ==
    /\ mpc' = "input" /\ ipc' = "last_name" /\ ret' = from
    /\ cur' = NoStudent /\ tmp' = NoTmp /\ exam_count' = 0
    /\ answers' = <<>> /\ prompts' = 0

----------------------------------------------------------------------------
(* main *)

InitMain ==
    /\ store \in StoreInputs
    /\ group = <<>>
    /\ sv = SvIdle
    /\ lastSave = NoSave(store)
    /\ loaded = NoLoad(store)
    /\ leaked = 0
    /\ mpc = "start" /\ ipc = "off" /\ ret = "none" /\ remaining = 0
    /\ cur = NoStudent /\ tmp = NoTmp /\ exam_count = 0 /\ answers = <<>>
    /\ prompts = 0 /\ count_raw = <<>> /\ screen = "first_menu"

inputVars == <<ipc, ret, cur, tmp, exam_count, answers, prompts>>

\* choice = input("Выберите вариант: ")
MainChoice(choice) ==
    /\ mpc = "start"
    /\ mpc' = IF choice = "1" THEN "count" ELSE IF choice = "2" THEN "load" ELSE "exit"
    /\ screen' = IF choice \in {"1", "2"} THEN "prompt" ELSE "bad_choice"
    /\ UNCHANGED <<apiVars, inputVars, remaining, count_raw>>

\* num_students = int(input(...)), inside try ... except ValueError
MainCount(line) ==
    /\ mpc = "count"
    /\ count_raw' = line
    /\ LET n == ParseInt(line)
       IN IF n.ok
          THEN /\ n.value <= MaxStudents
               /\ remaining' = IF n.value > 0 THEN n.value ELSE 0
               /\ mpc' = "for" /\ screen' = "prompt"
          ELSE /\ remaining' = 0
               /\ mpc' = IF "ValueError" \in MainHandler THEN "menu" ELSE "crashed"
               /\ screen' = IF "ValueError" \in MainHandler THEN "count_error"
                            ELSE "traceback"
    /\ UNCHANGED <<apiVars, inputVars>>

\* for _ in range(num_students): student = input_student_data()
MainFor ==
    /\ mpc = "for" /\ remaining > 0
    /\ CallInput("for")
    /\ UNCHANGED <<apiVars, remaining, count_raw, screen>>

\* what a call of group.save_to_db() does to the store and the connections
SaveEffect ==
    LET r == SaveRun(SvStart, store, group)
    IN /\ store' = r.store
       /\ lastSave' = [called |-> TRUE, dirty |-> FALSE, pre |-> store,
                       exc |-> r.sv.exc, out |-> SaveOutcome(r.sv)]
       /\ leaked' = leaked + Leak(r.sv.conn)
       /\ loaded' = [loaded EXCEPT !.fresh = FALSE]
       /\ UNCHANGED <<group, sv>>

SaveExc == SaveRun(SvStart, store, group).sv.exc
SaveRaises == SaveOutcome(SaveRun(SvStart, store, group).sv) = "raised"

\* group.save_to_db() after the loop, inside try ... except ValueError
MainSave ==
    /\ mpc = "for" /\ remaining = 0
    /\ SaveEffect
    /\ mpc' = IF ~SaveRaises THEN "menu"
              ELSE IF SaveExc \in MainHandler THEN "menu" ELSE "crashed"
    /\ screen' = IF ~SaveRaises THEN "saved"
                 ELSE IF SaveExc \in MainHandler THEN "count_error" ELSE "traceback"
    /\ UNCHANGED <<inputVars, remaining, count_raw>>

\* loaded_group = Group.load_from_db(); the group on success, else return
MainLoad(fault) ==
    /\ mpc = "load"
    /\ LET r == LoadFromDb(store, fault)
       IN /\ loaded' = [called |-> TRUE, value |-> r.value, raised |-> r.raised,
                        fault |-> fault, fresh |-> lastSave.called,
                        conn |-> r.conn, pre |-> store]
          /\ store' = r.store
          /\ leaked' = leaked + Leak(r.conn)
          /\ group' = IF r.raised = "none" /\ r.value.kind = "Group"
                      THEN r.value.students ELSE group
          /\ mpc' = IF r.raised # "none" THEN "crashed"
                    ELSE IF r.value.kind = "Group" THEN "menu" ELSE "exit"
          /\ screen' = IF r.raised # "none" THEN "traceback"
                       ELSE IF r.value.kind = "Group" THEN "loaded" ELSE "load_failed"
    /\ UNCHANGED <<sv, lastSave, inputVars, remaining, count_raw>>

\* menu 1: group.print_students_table()
MenuPrint ==
    /\ mpc = "menu"
    /\ screen' = "table"
    /\ UNCHANGED <<apiVars, mpc, inputVars, remaining, count_raw>>

\* menu 2: student = input_student_data(); group.add_student(student)
MenuAdd ==
    /\ mpc = "menu" /\ Len(group) < MaxStudents
    /\ CallInput("menu")
    /\ UNCHANGED <<apiVars, remaining, count_raw, screen>>

\* menu 3: group.save_to_db(), outside any try
MenuSave ==
    /\ mpc = "menu"
    /\ SaveEffect
    /\ mpc' = IF SaveRaises THEN "crashed" ELSE "menu"
    /\ screen' = IF SaveRaises THEN "traceback" ELSE "saved"
    /\ UNCHANGED <<inputVars, remaining, count_raw>>

\* menu 4: break
MenuExit ==
    /\ mpc = "menu"
    /\ mpc' = "exit"
    /\ screen' = "none"
    /\ UNCHANGED <<apiVars, inputVars, remaining, count_raw>>

\* any other menu line: print("Некорректный выбор")
MenuBad(choice) ==
    /\ mpc = "menu" /\ choice \notin {"1", "2", "3", "4"}
    /\ screen' = "bad_choice"
    /\ UNCHANGED <<apiVars, mpc, inputVars, remaining, count_raw>>

NextMain ==
    \/ \E choice \in MenuInputs : MainChoice(choice)
    \/ \E line \in CountInputs : MainCount(line)
    \/ MainFor
    \/ MainSave
    \/ \E fault \in 0..MaxFault : MainLoad(fault)
    \/ MenuPrint
    \/ MenuAdd
    \/ MenuSave
    \/ MenuExit
    \/ \E choice \in MenuInputs : MenuBad(choice)
    \/ \E v \in LastNames : InLastName(v)
    \/ \E v \in FirstNames : InFirstName(v)
    \/ \E v \in BirthDates : InBirthDate(v)
    \/ InWhile
    \/ \E more \in AnswerInputs : InConfirm(more)
    \/ \E v \in Subjects : InSubject(v)
    \/ \E v \in ExamDates : InExamDate(v)
    \/ \E v \in Teachers : InTeacherName(v)
    \/ InReturn

SpecMain == InitMain /\ [][NextMain]_vars

----------------------------------------------------------------------------
(* Vocabulary of the properties *)

\* a store the program can write to: no file yet, or a database whose
\* tables, where present, have the program's columns
UsableStore(st) ==
    /\ st.file \in {"missing", "db"}
    /\ st.students.exists => st.students.cols = StudentsCols
    /\ st.exams.exists => st.exams.cols = ExamsCols

\* the most recent save_to_db call has ended and the roster is still the one saved
SaveDone == lastSave.called /\ lastSave.out # "running"
SavedRosterKept == SaveDone /\ ~lastSave.dirty

\* the most recent load came after the most recent save_to_db call ended
LoadAfterSave == loaded.called /\ loaded.fresh /\ SaveDone

\* the tables of st hold exactly the rows of roster g, ids aside
ImageOf(g, st) ==
    LET rows == Scan(st.students.rows) IN
    /\ st.students.exists /\ st.exams.exists
    /\ Len(rows) = Len(g)
    /\ \A k \in 1..Len(rows) :
          LET ex == Scan({e \in st.exams.rows : e.student_id = rows[k].id}) IN
          /\ rows[k].last_name = g[k].last_name
          /\ rows[k].first_name = g[k].first_name
          /\ rows[k].birth_date = g[k].birth_date
          /\ Len(ex) = Len(g[k].record_book)
          /\ \A j \in 1..Len(ex) :
                Exam(ex[j].subject, ex[j].exam_date, ex[j].teacher_name)
                   = g[k].record_book[j]
    /\ \A e \in st.exams.rows : \E r \in st.students.rows : r.id = e.student_id

\* a store access of a load on st fails, fault naming the access the
\* environment makes fail
LoadFails(st, fault) ==
    \/ st.file \in {"unreadable", "junk"}
    \/ fault \in {1, 2}
    \/ ~st.students.exists
    \/ ~(SqlSelectStudents.cols \subseteq st.students.cols)
    \/ /\ st.students.rows # {}
       /\ \/ ~st.exams.exists
          \/ ~(SqlSelectExams.cols \subseteq st.exams.cols)
          \/ fault - 2 \in 1..Cardinality(st.students.rows)

\* every exams row refers to a students row of the same view
Referential(db) ==
    \A e \in db.exams.rows : \E r \in db.students.rows : r.id = e.student_id

IsYes(more) == more \in {<<"y">>, <<"Y">>}

NonNumericInputs ==
    { <<>>, <<" ">>, <<"-">>, <<"a", "b", "c">>, <<"1", ".", "5">>, <<"1", "_">>,
      <<"1", " ", "2">> }

PromptBound == 3 + 3 * MaxExamCount + 2

----------------------------------------------------------------------------
(* Properties *)

\* C1: round trip. After save_to_db of a roster with at least one student on a
\* usable store, load_from_db (no I/O fault) returns that roster: same students
\* in the same order, same fields, same exams in the same order.
C1_RoundTrip ==
    (LoadAfterSave /\ SavedRosterKept /\ loaded.fault = 0
        /\ UsableStore(lastSave.pre) /\ Len(group) >= 1)
    => (loaded.raised = "none" /\ loaded.value = Some(group))

\* C2: replace, not merge. Once a save_to_db call on a usable store has ended,
\* the students and exams tables hold exactly the rows of the roster passed to
\* that call, and nothing an earlier state of the store held.
C2_ReplaceNotMerge ==
    (Idle /\ SavedRosterKept /\ UsableStore(lastSave.pre))
    => (lastSave.out = "returned" /\ ImageOf(group, store))

\* C3: empty store signals absence. A load that finds the students table with
\* zero rows returns None, no load ever returns an empty Group, and a load
\* after saving a roster with zero students returns None.
C3_EmptyStoreAbsent ==
    /\ (loaded.called /\ loaded.fault = 0 /\ loaded.pre.file = "db"
           /\ loaded.pre.students.exists /\ loaded.pre.students.rows = {}
           /\ loaded.pre.students.cols = StudentsCols)
       => (loaded.raised = "none" /\ loaded.value = None)
    /\ loaded.called => loaded.value # Some(<<>>)
    /\ (LoadAfterSave /\ SavedRosterKept /\ loaded.fault = 0
           /\ UsableStore(lastSave.pre) /\ group = <<>>)
       => (loaded.raised = "none" /\ loaded.value = None)

\* the part of C3 that does not involve a save
C3_ZeroRowsGiveNone ==
    /\ (loaded.called /\ loaded.fault = 0 /\ loaded.pre.file = "db"
           /\ loaded.pre.students.exists /\ loaded.pre.students.rows = {}
           /\ loaded.pre.students.cols = StudentsCols)
       => (loaded.raised = "none" /\ loaded.value = None)
    /\ loaded.called => loaded.value # Some(<<>>)

\* C4: load never propagates a store failure. Whenever a store access of
\* load_from_db fails, the call raises nothing and returns None; a Group it
\* returns holds every student of the store, never a part of them.
C4_LoadNeverPropagates ==
    loaded.called =>
        /\ loaded.raised = "none"
        /\ LoadFails(loaded.pre, loaded.fault) => loaded.value = None
        /\ loaded.value.kind = "Group" =>
              Len(loaded.value.students) = Cardinality(loaded.pre.students.rows)

\* a load whose exams query for the second student failed, after the first
\* student had been reconstructed, returned None
C4_Witness ==
    /\ loaded.called /\ loaded.fault = 4
    /\ Cardinality(loaded.pre.students.rows) = 2
    /\ loaded.pre.exams.exists /\ loaded.pre.exams.rows # {}
    /\ loaded.value = None /\ loaded.raised = "none"

\* C5: save creates the schema when absent. A save_to_db call on a usable
\* store lacking the students or the exams table ends without an exception,
\* and afterwards both tables exist with the stated columns.
C5_SaveCreatesSchema ==
    (Idle /\ SaveDone /\ UsableStore(lastSave.pre)
        /\ (~lastSave.pre.students.exists \/ ~lastSave.pre.exams.exists))
    => /\ lastSave.out = "returned" /\ lastSave.exc = "none"
       /\ store.students.exists /\ store.students.cols = StudentsCols
       /\ store.exams.exists /\ store.exams.cols = ExamsCols

\* C6: referential integrity at every step of save_to_db, in the view of its
\* connection and in the store.
C6_ReferentialIntegrity ==
    /\ Referential(store)
    /\ sv.conn = "open" => Referential(sv.work)

\* a state after a DELETE or an INSERT of save_to_db
C6_AfterRowChange ==
    sv.pc \in {"delete_students", "for_student", "for_exam", "commit", "close", "return"}

\* C7: save is all-or-nothing. Until the commit the rows of the store are those
\* it held when save_to_db began; a save that fails raises to its caller and
\* leaves those rows, and a load after it returns what a load before it would.
C7_SaveAllOrNothing ==
    /\ (lastSave.called /\ sv.pc \in {"connect", "create_students", "create_exams",
                                     "delete_exams", "delete_students", "for_student",
                                     "for_exam", "commit", "unwind"})
       => (store.students.rows = lastSave.pre.students.rows
           /\ store.exams.rows = lastSave.pre.exams.rows)
    /\ (SaveDone /\ lastSave.exc # "none")
       => /\ lastSave.out = "raised"
          /\ store.students = lastSave.pre.students
          /\ store.exams = lastSave.pre.exams
    /\ (LoadAfterSave /\ lastSave.exc # "none")
       => (loaded.value = LoadFromDb(lastSave.pre, loaded.fault).value
           /\ loaded.raised = "none")

\* a save failed on a store holding rows, and the load after it returned them
C7_Witness ==
    /\ LoadAfterSave /\ lastSave.exc # "none" /\ lastSave.out = "raised"
    /\ group # <<>>
    /\ lastSave.pre.students.rows # {}
    /\ loaded.value.kind = "Group"

\* C8: connection lifecycle. When no save or load is running, no connection a
\* call opened is still open.
C8_ConnectionLifecycle == Idle => leaked = 0

\* C9: exam-count rule. input_student_data asks at most PromptBound lines
\* and returns a student with 3 to 5 exams; the first three exams come without
\* a confirmation, one is asked before the 4th and before the 5th, any answer
\* that is not 'y' or 'Y' ends the entry, and no 6th exam is asked for.
C9_ExamCountRule ==
    InRunning =>
        /\ prompts <= PromptBound
        /\ exam_count <= 5
        /\ ipc \notin {"last_name", "first_name", "birth_date"}
              => exam_count = Len(cur.record_book)
        /\ \A k \in 1..Len(answers) : k < Len(answers) => IsYes(answers[k])
        /\ ipc \in {"subject", "exam_date", "teacher_name"}
              => /\ exam_count < 5
                 /\ Len(answers) = (IF exam_count < 3 THEN 0 ELSE exam_count - 2)
                 /\ \A k \in 1..Len(answers) : IsYes(answers[k])
        /\ ipc = "confirm" => (exam_count \in {3, 4} /\ Len(answers) = exam_count - 3)
        /\ ipc = "return"
              => /\ Len(cur.record_book) \in 3..5
                 /\ Len(cur.record_book) < 5
                       => /\ Len(answers) = Len(cur.record_book) - 2
                          /\ ~IsYes(answers[Len(answers)])
                 /\ Len(cur.record_book) = 5
                       => (Len(answers) = 2 /\ IsYes(answers[2]))

\* an entry that went on after "Y" and ended, with four exams, on "yes"
C9_Witness ==
    /\ InRunning /\ ipc = "return"
    /\ Len(cur.record_book) = 4
    /\ answers = << <<"Y">>, <<"y", "e", "s">> >>

\* C10: a non-numeric student count is reported, and the manual entry ends
\* there: no student is added, no save is made, the store stays as it was.
C10_BadCountAborts ==
    [][(mpc = "count" /\ mpc' # "count" /\ count_raw' \in NonNumericInputs)
        => /\ screen' = "count_error"
           /\ mpc' = "menu"
           /\ group' = <<>> /\ group = <<>>
           /\ store' = store
           /\ lastSave' = lastSave /\ ~lastSave.called
           /\ leaked' = leaked]_vars

\* the menu is reached after "1.5" was typed as the count
C10_Witness ==
    /\ screen = "count_error" /\ mpc = "menu"
    /\ count_raw = <<"1", ".", "5">>
    /\ group = <<>> /\ ~lastSave.called /\ store = lastSave.pre

====
